---- MODULE Spec2Model ----
(***************************************************************************)
(* File-attachment versioning protocol of the FileAttachments component    *)
(* (handleFileUpload, handleDelete, onRestore, fetchAttachments,           *)
(* getVersionHistory, VersionHistoryDialog) over the file_attachments      *)
(* table (the Catalog) and the task-attachments bucket (the Store).        *)
(*                                                                         *)
(* Every await of the component is one action: the awaited call takes      *)
(* effect on the Catalog or the Store and the handler runs on to its next  *)
(* await.  A call that returns { error } has no effect on the Catalog or   *)
(* the Store.                                                              *)
(***************************************************************************)
EXTENDS Integers, Sequences, FiniteSets, TLC

\* ------------------------------------------------------------------ bounds
\* Number of UUIDs (storage paths and record ids) ever drawn, when every call
\* succeeds (MaxUuidOk) and when calls may fail (MaxUuid).
MaxUuidOk == 6
MaxUuid == 4
\* Number of UUIDs ever drawn by a session that only uploads.
MaxUuidBatch == 6
\* Number of files in one upload batch (event.target.files).
MaxBatch == 2
\* Number of Store and Catalog calls that return an error.
MaxErrors == 1

\* --------------------------------------------------------------- constants
MAX_FILE_SIZE == 10485760

ALLOWED_FILE_TYPES ==
  { "image/jpeg", "image/png", "image/gif", "image/webp",
    "application/pdf",
    "application/vnd.openxmlformats-officedocument.wordprocessingml.document",
    "application/vnd.openxmlformats-officedocument.spreadsheetml.sheet",
    "application/msword",
    "application/vnd.ms-excel",
    "text/plain", "text/csv" }

\* Browser tabs showing the component, the tasks of the project and the user
\* each tab is signed in as.
Sessions == {"s1", "s2", "s3"}
TaskIds == {"t1", "t2"}
UserOf(s) == IF s = "s2" THEN "u2" ELSE "u1"

NoUser == "null"
NoName == "null"

FileNames == {"a.pdf", "b.pdf"}

\* The files a user can pick: a valid a.pdf, a valid b.pdf, an a.pdf of a type
\* outside the allow-list and an a.pdf one byte over the size limit.
Files ==
  { [name |-> "a.pdf", type |-> "application/pdf", size |-> MAX_FILE_SIZE],
    [name |-> "b.pdf", type |-> "application/pdf", size |-> 1024],
    [name |-> "a.pdf", type |-> "application/zip", size |-> 1024],
    [name |-> "a.pdf", type |-> "application/pdf", size |-> MAX_FILE_SIZE + 1] }

\* The batches a file picker hands over: 1..MaxBatch files of one directory,
\* hence with pairwise different names.
Batches ==
  { b \in UNION { [1..n -> Files] : n \in 1..MaxBatch } :
      \A i, j \in DOMAIN b : i # j => b[i].name # b[j].name }

\* ------------------------------------------------------------------- state
VARIABLES
  taskIdProp,          \* per session: the taskId prop of the component
  catalog,             \* file_attachments rows
  store,               \* paths of the blobs in the task-attachments bucket
  nextUuid,            \* next UUID (crypto.randomUUID, gen_random_uuid)
  errors,              \* number of calls that have returned an error
  attachments,         \* per session: useState attachments (cached latest list)
  isUploading,         \* per session: useState isUploading
  showVersionHistory,  \* per session: useState showVersionHistory
  versions,            \* per session: VersionHistoryDialog useState versions
  loadingVersions,     \* per session: file name of the loadVersions in flight
  fetchPending,        \* per session: a fetchAttachments call is in flight
  toast,               \* per session: title of the last toast shown
  up,                  \* per session: the running handleFileUpload
  del,                 \* per session: the running handleDelete
  res                  \* per session: the running onRestore

attachmentVars ==
  << taskIdProp, catalog, store, nextUuid, errors, attachments, isUploading,
     showVersionHistory, versions, loadingVersions, fetchPending,
     toast, up, del, res >>

\* handleFileUpload's path of a file; names and paths are sequences of
\* characters.
VARIABLES
  fileName,            \* file.name of the file whose path is built
  sanitizedName,       \* const sanitizedName
  filePath             \* const filePath

pathVars == << fileName, sanitizedName, filePath >>

\* ProjectProvider.
VARIABLES
  projects,            \* useState projects
  tasks,               \* useState tasks
  comments,            \* useState comments
  notifications,       \* useState notifications
  preferences,         \* useState preferences
  isInitialized,       \* useState isInitialized
  localStorage,        \* window.localStorage, by storage key
  changed,             \* the persisted states set since the last commit
  idClock,             \* Date.now() of generateId
  searchQuery,         \* the argument of the last searchTasks call
  searchResult         \* its result

appVars ==
  << projects, tasks, comments, notifications, preferences, isInitialized,
     localStorage, changed, idClock, searchQuery, searchResult >>

\* The task a session shows.
TaskOf(s) == taskIdProp[s]

\* ------------------------------------------------------------ the Catalog
\* Row-level security: UPDATE and DELETE see only the caller's own rows.
OwnRow(r, uid) == r.uploaded_by = uid

PairRecords(cat, task, name) ==
  { r \in cat : r.task_id = task /\ r.file_name = name }

\* select * where task_id = taskId and is_latest = true
SelectLatest(cat, task) ==
  { r \in cat : r.task_id = task /\ r.is_latest }

\* The rows that can come first under order by version desc.
FirstByVersionAscending(rows) ==
  { r \in rows : \A q \in rows : q.version >= r.version }

FirstByVersion(rows) ==
  { r \in rows : \A q \in rows : q.version <= r.version }

\* update set is_latest = false where task_id = .. and file_name = ..
UpdateDemote(cat, uid, task, name) ==
  { IF r.task_id = task /\ r.file_name = name /\ OwnRow(r, uid)
      THEN [r EXCEPT !.is_latest = FALSE] ELSE r : r \in cat }

\* update set is_latest = true where id = ..
UpdatePromote(cat, uid, id) ==
  { IF r.id = id /\ OwnRow(r, uid)
      THEN [r EXCEPT !.is_latest = TRUE] ELSE r : r \in cat }

\* DeleteRow that deletes no row.
DeleteRowNone(cat, uid, id) == cat

\* delete where id = ..
DeleteRow(cat, uid, id) ==
  { r \in cat : ~(r.id = id /\ OwnRow(r, uid)) }

\* insert (file_type and file_size are stored and never read back by the
\* protocol; they are left out of the row)
NewRow(id, task, name, path, version, uid) ==
  [ id |-> id, task_id |-> task, file_name |-> name, file_path |-> path,
    version |-> version, is_latest |-> TRUE, uploaded_by |-> uid ]

\* ------------------------------------------------------------- validation
TypeAllowed(file) == file.type \in ALLOWED_FILE_TYPES

SizeAllowedAny(file) == TRUE

SizeAllowed(file) == ~(file.size > MAX_FILE_SIZE)

\* attachments.find(a => a.file_name === file.name)
ExistingFile(atts, file) == \E a \in atts : a.file_name = file.name

\* ------------------------------------------------------- process records
NoAtt ==
  [ id |-> 0, task_id |-> "null", file_name |-> NoName, file_path |-> 0,
    version |-> 0, is_latest |-> FALSE, uploaded_by |-> NoUser ]

UpIdle ==
  [ pc |-> "idle", files |-> << >>, idx |-> 0, atts |-> {}, user |-> NoUser,
    versions |-> {}, newVersion |-> 0, path |-> 0, err |-> FALSE ]

OpIdle == [ pc |-> "idle", att |-> NoAtt, top |-> 0, err |-> FALSE ]

Quiet(s) ==
  /\ up[s].pc = "idle"
  /\ del[s].pc = "idle"
  /\ res[s].pc = "idle"

InitAttachments ==
  /\ taskIdProp = [s \in Sessions |-> "t1"]
  /\ catalog = {}
  /\ store = {}
  /\ nextUuid = 1
  /\ errors = 0
  /\ attachments = [s \in Sessions |-> {}]
  /\ isUploading = [s \in Sessions |-> FALSE]
  /\ showVersionHistory = [s \in Sessions |-> NoName]
  /\ versions = [s \in Sessions |-> {}]
  /\ loadingVersions = [s \in Sessions |-> NoName]
  /\ fetchPending = [s \in Sessions |-> TRUE]
  /\ toast = [s \in Sessions |-> "none"]
  /\ up = [s \in Sessions |-> UpIdle]
  /\ del = [s \in Sessions |-> OpIdle]
  /\ res = [s \in Sessions |-> OpIdle]

\* A Store or Catalog call returns, with data (ok) or with an error.
Respond(ok) ==
  /\ ok \/ errors < MaxErrors
  /\ errors' = IF ok THEN errors ELSE errors + 1

\* -------------------------------------------------------- fetchAttachments
\* The response of a fetchAttachments call arrives: setAttachments(data), or
\* nothing on error.
FetchAttachments(s, ok) ==
  /\ fetchPending[s]
  /\ Respond(ok)
  /\ attachments' = [attachments EXCEPT ![s] =
       IF ok THEN SelectLatest(catalog, TaskOf(s)) ELSE @]
  /\ fetchPending' = [fetchPending EXCEPT ![s] = FALSE]
  /\ UNCHANGED << catalog, store, nextUuid, isUploading, showVersionHistory,
                  versions, loadingVersions, toast, up, del, res >>
  /\ UNCHANGED << taskIdProp, pathVars, appVars >>

\* -------------------------------------------------------- handleFileUpload
\* onChange of the file input with a non-empty FileList; the handler keeps the
\* attachments of the render it was created in.  The Upload button that opens
\* the picker is disabled while isUploading, and the open dialog is modal.
UploadBegin(s, files) ==
  /\ up[s].pc = "idle"
  /\ ~isUploading[s]
  /\ showVersionHistory[s] = NoName
  /\ up' = [up EXCEPT ![s] =
       [UpIdle EXCEPT !.pc = "getUser", !.files = files, !.idx = 1,
                      !.atts = attachments[s]]]
  /\ UNCHANGED << errors, catalog, store, nextUuid, attachments, isUploading,
                  showVersionHistory, versions, loadingVersions, fetchPending,
                  toast, del, res >>
  /\ UNCHANGED << taskIdProp, pathVars, appVars >>

\* supabase.auth.getUser() returns: no user ends the handler.
UploadGetUser(s, authed) ==
  /\ up[s].pc = "getUser"
  /\ IF authed
       THEN /\ isUploading' = [isUploading EXCEPT ![s] = TRUE]
            /\ up' = [up EXCEPT ![s].pc = "file", ![s].user = UserOf(s)]
            /\ UNCHANGED toast
       ELSE /\ toast' = [toast EXCEPT ![s] = "Authentication required"]
            /\ up' = [up EXCEPT ![s] = UpIdle]
            /\ UNCHANGED isUploading
  /\ UNCHANGED << errors, catalog, store, nextUuid, attachments, showVersionHistory,
                  versions, loadingVersions, fetchPending, del, res >>
  /\ UNCHANGED << taskIdProp, pathVars, appVars >>

\* One turn of the for loop up to its first await, or the code after the loop.
UploadNextFile(s) ==
  /\ up[s].pc = "file"
  /\ IF up[s].idx > Len(up[s].files)
       THEN /\ isUploading' = [isUploading EXCEPT ![s] = FALSE]
            /\ fetchPending' = [fetchPending EXCEPT ![s] = TRUE]
            /\ up' = [up EXCEPT ![s] = UpIdle]
            /\ UNCHANGED toast
       ELSE LET file == up[s].files[up[s].idx] IN
            /\ UNCHANGED << isUploading, fetchPending >>
            /\ IF ~TypeAllowed(file)
                 THEN /\ toast' = [toast EXCEPT ![s] = "Invalid file type"]
                      /\ up' = [up EXCEPT ![s].idx = @ + 1, ![s].err = FALSE]
                 ELSE IF ~SizeAllowed(file)
                 THEN /\ toast' = [toast EXCEPT ![s] = "File too large"]
                      /\ up' = [up EXCEPT ![s].idx = @ + 1, ![s].err = FALSE]
                 ELSE /\ up' = [up EXCEPT
                           ![s].pc = IF ExistingFile(up[s].atts, file)
                                       THEN "history" ELSE "store",
                           ![s].versions = {},
                           ![s].newVersion = 1,
                           ![s].err = FALSE]
                      /\ UNCHANGED toast
  /\ UNCHANGED << errors, catalog, store, nextUuid, attachments, showVersionHistory,
                  versions, loadingVersions, del, res >>
  /\ UNCHANGED << taskIdProp, pathVars, appVars >>

\* versions[0].version + 1 of getVersionHistory's rows, 1 for no rows
NextVersion(rows) ==
  IF rows # {} THEN (CHOOSE r \in FirstByVersion(rows) : TRUE).version + 1 ELSE 1

\* await getVersionHistory(file.name): the rows of the pair, [] on error.
UploadHistory(s, ok) ==
  /\ up[s].pc = "history"
  /\ Respond(ok)
  /\ LET file == up[s].files[up[s].idx]
         rows == IF ok THEN PairRecords(catalog, TaskOf(s), file.name) ELSE {}
     IN up' = [up EXCEPT ![s].pc = "demote",
                         ![s].versions = rows,
                         ![s].newVersion = NextVersion(rows),
                         ![s].err = @ \/ ~ok]
  /\ UNCHANGED << catalog, store, nextUuid, attachments, isUploading,
                  showVersionHistory, versions, loadingVersions, fetchPending,
                  toast, del, res >>
  /\ UNCHANGED << taskIdProp, pathVars, appVars >>

\* UploadDemote without its update.
UploadDemoteSkipped(s, ok) ==
  /\ up[s].pc = "demote"
  /\ Respond(ok)
  /\ up' = [up EXCEPT ![s].pc = "store", ![s].err = @ \/ ~ok]
  /\ UNCHANGED << catalog, store, nextUuid, attachments, isUploading,
                  showVersionHistory, versions, loadingVersions, fetchPending,
                  toast, del, res >>
  /\ UNCHANGED << taskIdProp, pathVars, appVars >>

\* await update({ is_latest: false }) of the pair; the result is not looked at.
UploadDemote(s, ok) ==
  /\ up[s].pc = "demote"
  /\ Respond(ok)
  /\ LET file == up[s].files[up[s].idx] IN
     catalog' = IF ok
       THEN UpdateDemote(catalog, up[s].user, TaskOf(s), file.name)
       ELSE catalog
  /\ up' = [up EXCEPT ![s].pc = "store", ![s].err = @ \/ ~ok]
  /\ UNCHANGED << store, nextUuid, attachments, isUploading,
                  showVersionHistory, versions, loadingVersions, fetchPending,
                  toast, del, res >>
  /\ UNCHANGED << taskIdProp, pathVars, appVars >>

\* UploadStore of which an error ends the handler.
UploadStoreAborting(s, ok) ==
  /\ up[s].pc = "store"
  /\ Respond(ok)
  /\ nextUuid' = nextUuid + 1
  /\ IF ok
       THEN /\ store' = store \cup {nextUuid}
            /\ up' = [up EXCEPT ![s].pc = "insert", ![s].path = nextUuid]
            /\ UNCHANGED << toast, isUploading >>
       ELSE /\ toast' = [toast EXCEPT ![s] = "Upload failed"]
            /\ up' = [up EXCEPT ![s] = UpIdle]
            /\ isUploading' = [isUploading EXCEPT ![s] = FALSE]
            /\ UNCHANGED store
  /\ UNCHANGED << catalog, attachments, showVersionHistory,
                  versions, loadingVersions, fetchPending, del, res >>
  /\ UNCHANGED << taskIdProp, pathVars, appVars >>

\* await storage.upload(filePath, file) under a fresh random path.
UploadStore(s, ok) ==
  /\ up[s].pc = "store"
  /\ Respond(ok)
  /\ nextUuid' = nextUuid + 1
  /\ IF ok
       THEN /\ store' = store \cup {nextUuid}
            /\ up' = [up EXCEPT ![s].pc = "insert", ![s].path = nextUuid]
            /\ UNCHANGED toast
       ELSE /\ toast' = [toast EXCEPT ![s] = "Upload failed"]
            /\ up' = [up EXCEPT ![s].pc = "file", ![s].idx = @ + 1,
                                ![s].err = TRUE]
            /\ UNCHANGED store
  /\ UNCHANGED << catalog, attachments, isUploading, showVersionHistory,
                  versions, loadingVersions, fetchPending, del, res >>
  /\ UNCHANGED << taskIdProp, pathVars, appVars >>

\* UploadInsert of which the insert takes effect whatever it returns.
UploadInsertAnyway(s, ok) ==
  /\ up[s].pc = "insert"
  /\ Respond(ok)
  /\ LET file == up[s].files[up[s].idx] IN
     /\ catalog' = catalog \cup
          { NewRow(nextUuid, TaskOf(s), file.name, up[s].path,
                   up[s].newVersion, up[s].user) }
     /\ nextUuid' = nextUuid + 1
     /\ toast' = [toast EXCEPT ![s] =
          IF ok THEN "File uploaded" ELSE "Failed to save attachment"]
     /\ up' = [up EXCEPT ![s].pc = "file", ![s].idx = @ + 1,
                         ![s].err = @ \/ ~ok]
  /\ UNCHANGED << store, attachments, isUploading, showVersionHistory,
                  versions, loadingVersions, fetchPending, del, res >>
  /\ UNCHANGED << taskIdProp, pathVars, appVars >>

\* await insert({ ..., version: newVersion, is_latest: true, uploaded_by }).
UploadInsert(s, ok) ==
  /\ up[s].pc = "insert"
  /\ Respond(ok)
  /\ LET file == up[s].files[up[s].idx] IN
     IF ok
       THEN /\ catalog' = catalog \cup
                 { NewRow(nextUuid, TaskOf(s), file.name, up[s].path,
                          up[s].newVersion, up[s].user) }
            /\ nextUuid' = nextUuid + 1
            /\ toast' = [toast EXCEPT ![s] =
                 IF ExistingFile(up[s].atts, file)
                   THEN "New version uploaded" ELSE "File uploaded"]
            /\ up' = [up EXCEPT ![s].pc = "file", ![s].idx = @ + 1]
       ELSE /\ toast' = [toast EXCEPT ![s] = "Failed to save attachment"]
            /\ up' = [up EXCEPT ![s].pc = "file", ![s].idx = @ + 1,
                                ![s].err = TRUE]
            /\ UNCHANGED << catalog, nextUuid >>
  /\ UNCHANGED << store, attachments, isUploading, showVersionHistory,
                  versions, loadingVersions, fetchPending, del, res >>
  /\ UNCHANGED << taskIdProp, pathVars, appVars >>

\* UploadThrow outside a try block: the handler ends where the call rejects.
UploadThrowUncaught(s) ==
  /\ up[s].pc \in {"history", "demote", "store", "insert"}
  /\ Respond(FALSE)
  /\ nextUuid' = IF up[s].pc = "store" THEN nextUuid + 1 ELSE nextUuid
  /\ up' = [up EXCEPT ![s] = UpIdle]
  /\ UNCHANGED << catalog, store, attachments, isUploading, showVersionHistory,
                  versions, loadingVersions, fetchPending, toast, del, res >>
  /\ UNCHANGED << taskIdProp, pathVars, appVars >>

\* An awaited call of the loop body rejects (a call that rejects has no
\* effect on the Catalog or the Store): the catch block of the turn shows
\* 'Upload failed' and the loop goes on.
UploadThrow(s) ==
  /\ up[s].pc \in {"history", "demote", "store", "insert"}
  /\ Respond(FALSE)
  /\ nextUuid' = IF up[s].pc = "store" THEN nextUuid + 1 ELSE nextUuid
  /\ toast' = [toast EXCEPT ![s] = "Upload failed"]
  /\ up' = [up EXCEPT ![s].pc = "file", ![s].idx = @ + 1, ![s].err = TRUE]
  /\ UNCHANGED << catalog, store, attachments, isUploading, showVersionHistory,
                  versions, loadingVersions, fetchPending, del, res >>
  /\ UNCHANGED << taskIdProp, pathVars, appVars >>

\* ------------------------------------------------------------ handleDelete
\* Click on the X of a row of the attachments list.
DeleteBegin(s, a) ==
  /\ del[s].pc = "idle"
  /\ showVersionHistory[s] = NoName
  /\ a \in attachments[s]
  /\ del' = [del EXCEPT ![s] = [OpIdle EXCEPT !.pc = "remove", !.att = a]]
  /\ UNCHANGED << errors, catalog, store, nextUuid, attachments, isUploading,
                  showVersionHistory, versions, loadingVersions, fetchPending,
                  toast, up, res >>
  /\ UNCHANGED << taskIdProp, pathVars, appVars >>

\* await storage.remove([attachment.file_path]); the result is not looked at.
DeleteRemove(s, ok) ==
  /\ del[s].pc = "remove"
  /\ Respond(ok)
  /\ store' = IF ok THEN store \ {del[s].att.file_path} ELSE store
  /\ del' = [del EXCEPT ![s].pc = "delete", ![s].err = @ \/ ~ok]
  /\ UNCHANGED << catalog, nextUuid, attachments, isUploading,
                  showVersionHistory, versions, loadingVersions, fetchPending,
                  toast, up, res >>
  /\ UNCHANGED << taskIdProp, pathVars, appVars >>

\* await delete().eq('id', attachment.id); the result is not looked at.
DeleteCatalog(s, ok) ==
  /\ del[s].pc = "delete"
  /\ Respond(ok)
  /\ catalog' = IF ok
       THEN DeleteRow(catalog, UserOf(s), del[s].att.id) ELSE catalog
  /\ del' = [del EXCEPT
       ![s].pc = IF del[s].att.is_latest THEN "history" ELSE "done",
       ![s].err = @ \/ ~ok]
  /\ UNCHANGED << store, nextUuid, attachments, isUploading,
                  showVersionHistory, versions, loadingVersions, fetchPending,
                  toast, up, res >>
  /\ UNCHANGED << taskIdProp, pathVars, appVars >>

\* await getVersionHistory(attachment.file_name): versions[0] is kept.
DeleteHistory(s, ok) ==
  /\ del[s].pc = "history"
  /\ Respond(ok)
  /\ LET rows == IF ok
           THEN PairRecords(catalog, TaskOf(s), del[s].att.file_name) ELSE {}
     IN IF rows = {}
          THEN del' = [del EXCEPT ![s].pc = "done", ![s].err = @ \/ ~ok]
          ELSE \E first \in FirstByVersion(rows) :
                 del' = [del EXCEPT ![s].pc = "promote", ![s].top = first.id]
  /\ UNCHANGED << catalog, store, nextUuid, attachments, isUploading,
                  showVersionHistory, versions, loadingVersions, fetchPending,
                  toast, up, res >>
  /\ UNCHANGED << taskIdProp, pathVars, appVars >>

\* await update({ is_latest: true }).eq('id', versions[0].id).
DeletePromote(s, ok) ==
  /\ del[s].pc = "promote"
  /\ Respond(ok)
  /\ catalog' = IF ok
       THEN UpdatePromote(catalog, UserOf(s), del[s].top) ELSE catalog
  /\ del' = [del EXCEPT ![s].pc = "done", ![s].err = @ \/ ~ok]
  /\ UNCHANGED << store, nextUuid, attachments, isUploading,
                  showVersionHistory, versions, loadingVersions, fetchPending,
                  toast, up, res >>
  /\ UNCHANGED << taskIdProp, pathVars, appVars >>

\* The code after the awaits of handleDelete: the toast and fetchAttachments().
DeleteDone(s) ==
  /\ del[s].pc = "done"
  /\ toast' = [toast EXCEPT ![s] = "File deleted"]
  /\ fetchPending' = [fetchPending EXCEPT ![s] = TRUE]
  /\ del' = [del EXCEPT ![s] = OpIdle]
  /\ UNCHANGED << catalog, store, nextUuid, errors, attachments, isUploading,
                  showVersionHistory, versions, loadingVersions, up, res >>
  /\ UNCHANGED << taskIdProp, pathVars, appVars >>

\* ---------------------------------------------------- VersionHistoryDialog
\* Click on the History button of a row: the dialog opens and its effect
\* starts loadVersions.
OpenHistory(s, a) ==
  /\ showVersionHistory[s] = NoName
  /\ loadingVersions[s] = NoName
  /\ a \in attachments[s]
  /\ showVersionHistory' = [showVersionHistory EXCEPT ![s] = a.file_name]
  /\ loadingVersions' = [loadingVersions EXCEPT ![s] = a.file_name]
  /\ UNCHANGED << errors, catalog, store, nextUuid, attachments, isUploading,
                  versions, fetchPending, toast, up, del, res >>
  /\ UNCHANGED << taskIdProp, pathVars, appVars >>

\* The select of loadVersions returns: setVersions(data) unless it failed.
LoadVersions(s, ok) ==
  /\ loadingVersions[s] # NoName
  /\ Respond(ok)
  /\ versions' = [versions EXCEPT ![s] =
       IF ok THEN PairRecords(catalog, TaskOf(s), loadingVersions[s]) ELSE @]
  /\ loadingVersions' = [loadingVersions EXCEPT ![s] = NoName]
  /\ UNCHANGED << catalog, store, nextUuid, attachments, isUploading,
                  showVersionHistory, fetchPending, toast, up, del, res >>
  /\ UNCHANGED << taskIdProp, pathVars, appVars >>

\* onClose of the dialog.
CloseHistory(s) ==
  /\ showVersionHistory[s] # NoName
  /\ showVersionHistory' = [showVersionHistory EXCEPT ![s] = NoName]
  /\ UNCHANGED << errors, catalog, store, nextUuid, attachments, isUploading,
                  versions, loadingVersions, fetchPending, toast, up, del,
                  res >>
  /\ UNCHANGED << taskIdProp, pathVars, appVars >>

\* --------------------------------------------------------------- onRestore
\* The Restore button of a row of the dialog: shown when the list is shown
\* (not loading) and only on rows whose loaded copy is not latest.
RestoreOffered(s, v) ==
  /\ showVersionHistory[s] # NoName
  /\ loadingVersions[s] = NoName
  /\ v \in versions[s]
  /\ ~v.is_latest

RestoreBegin(s, v) ==
  /\ res[s].pc = "idle"
  /\ RestoreOffered(s, v)
  /\ res' = [res EXCEPT ![s] = [OpIdle EXCEPT !.pc = "demote", !.att = v]]
  /\ UNCHANGED << errors, catalog, store, nextUuid, attachments, isUploading,
                  showVersionHistory, versions, loadingVersions, fetchPending,
                  toast, up, del >>
  /\ UNCHANGED << taskIdProp, pathVars, appVars >>

\* RestoreDemote without its update: the promotion alone.
RestoreDemoteSkipped(s, ok) ==
  /\ res[s].pc = "demote"
  /\ Respond(ok)
  /\ res' = [res EXCEPT ![s].pc = "promote", ![s].err = @ \/ ~ok]
  /\ UNCHANGED << catalog, store, nextUuid, attachments, isUploading,
                  showVersionHistory, versions, loadingVersions, fetchPending,
                  toast, up, del >>
  /\ UNCHANGED << taskIdProp, pathVars, appVars >>

\* await update({ is_latest: false }) of the pair; the result is not looked at.
RestoreDemote(s, ok) ==
  /\ res[s].pc = "demote"
  /\ Respond(ok)
  /\ catalog' = IF ok
       THEN UpdateDemote(catalog, UserOf(s), TaskOf(s), res[s].att.file_name)
       ELSE catalog
  /\ res' = [res EXCEPT ![s].pc = "promote", ![s].err = @ \/ ~ok]
  /\ UNCHANGED << store, nextUuid, attachments, isUploading,
                  showVersionHistory, versions, loadingVersions, fetchPending,
                  toast, up, del >>
  /\ UNCHANGED << taskIdProp, pathVars, appVars >>

\* await update({ is_latest: true }).eq('id', attachment.id); the result is
\* not looked at.
RestorePromote(s, ok) ==
  /\ res[s].pc = "promote"
  /\ Respond(ok)
  /\ catalog' = IF ok
       THEN UpdatePromote(catalog, UserOf(s), res[s].att.id) ELSE catalog
  /\ res' = [res EXCEPT ![s].pc = "done", ![s].err = @ \/ ~ok]
  /\ UNCHANGED << store, nextUuid, attachments, isUploading,
                  showVersionHistory, versions, loadingVersions, fetchPending,
                  toast, up, del >>
  /\ UNCHANGED << taskIdProp, pathVars, appVars >>

\* The code after the awaits of onRestore: the toast, fetchAttachments() and
\* setShowVersionHistory(null).
RestoreDone(s) ==
  /\ res[s].pc = "done"
  /\ toast' = [toast EXCEPT ![s] = "Version restored"]
  /\ fetchPending' = [fetchPending EXCEPT ![s] = TRUE]
  /\ showVersionHistory' = [showVersionHistory EXCEPT ![s] = NoName]
  /\ res' = [res EXCEPT ![s] = OpIdle]
  /\ UNCHANGED << catalog, store, nextUuid, errors, attachments, isUploading,
                  versions, loadingVersions, up, del >>
  /\ UNCHANGED << taskIdProp, pathVars, appVars >>

\* ------------------------------------------------------------------ reload
\* The page is reloaded (or left and opened again): the handlers in flight are
\* abandoned and the component mounts anew, which starts fetchAttachments.
Reload(s) ==
  /\ ~Quiet(s)
  /\ attachments' = [attachments EXCEPT ![s] = {}]
  /\ isUploading' = [isUploading EXCEPT ![s] = FALSE]
  /\ showVersionHistory' = [showVersionHistory EXCEPT ![s] = NoName]
  /\ versions' = [versions EXCEPT ![s] = {}]
  /\ loadingVersions' = [loadingVersions EXCEPT ![s] = NoName]
  /\ fetchPending' = [fetchPending EXCEPT ![s] = TRUE]
  /\ toast' = [toast EXCEPT ![s] = "none"]
  /\ up' = [up EXCEPT ![s] = UpIdle]
  /\ del' = [del EXCEPT ![s] = OpIdle]
  /\ res' = [res EXCEPT ![s] = OpIdle]
  /\ UNCHANGED << errors, catalog, store, nextUuid >>
  /\ UNCHANGED << taskIdProp, pathVars, appVars >>

\* ------------------------------------------------------------- task switch
\* A click on another task of the board while the panel is open: the mounted
\* component is handed the new taskId, and its effect starts fetchAttachments;
\* the list keeps the rows of the task shown before until the call returns.
\* The user switches when no handler and no call of the tab is in flight.
SwitchTask(s, task) ==
  /\ task # taskIdProp[s]
  /\ Quiet(s)
  /\ ~fetchPending[s]
  /\ showVersionHistory[s] = NoName
  /\ loadingVersions[s] = NoName
  /\ taskIdProp' = [taskIdProp EXCEPT ![s] = task]
  /\ fetchPending' = [fetchPending EXCEPT ![s] = TRUE]
  /\ UNCHANGED << catalog, store, nextUuid, errors, attachments, isUploading,
                  showVersionHistory, versions, loadingVersions, toast, up,
                  del, res >>
  /\ UNCHANGED << pathVars, appVars >>

\* ------------------------------------------- sanitizeFilename, filePath
\* File names and paths are sequences of characters.
\* Length of the short file names tried, character by character.
MaxNameLen == 2

\* substring(0, 255)
SANITIZED_LENGTH == 255

Lower ==
  { "a", "b", "c", "d", "e", "f", "g", "h", "i", "j", "k", "l", "m",
    "n", "o", "p", "q", "r", "s", "t", "u", "v", "w", "x", "y", "z" }
Upper ==
  { "A", "B", "C", "D", "E", "F", "G", "H", "I", "J", "K", "L", "M",
    "N", "O", "P", "Q", "R", "S", "T", "U", "V", "W", "X", "Y", "Z" }
Digits == { "0", "1", "2", "3", "4", "5", "6", "7", "8", "9" }

\* The characters the regular expression [^a-zA-Z0-9._-] does not match.
KeptChars == Lower \cup Upper \cup Digits \cup { ".", "_", "-" }

\* The characters file names are made of here.
NameChars == { "a", "Z", "9", ".", "_", "-", "/", " " }

\* "../../etc/passwd.png"
TraversalName ==
  << ".", ".", "/", ".", ".", "/", "e", "t", "c", "/",
     "p", "a", "s", "s", "w", "d", ".", "p", "n", "g" >>

\* The file names tried: every name of up to MaxNameLen characters, the
\* traversal name, and names of one repeated character around the length
\* limit.
Names ==
  UNION { [1..n -> NameChars] : n \in 0..MaxNameLen }
    \cup { TraversalName }
    \cup { [i \in 1..n |-> c] :
             n \in (SANITIZED_LENGTH - 1)..(SANITIZED_LENGTH + 2),
             c \in { "a", "/", "." } }

\* name.replace(/[^a-zA-Z0-9._-]/g, '_')
ReplaceUnkept(name) ==
  [i \in 1..Len(name) |-> IF name[i] \in KeptChars THEN name[i] ELSE "_"]

\* str.substring(0, n)
Substring0(str, n) == SubSeq(str, 1, IF Len(str) < n THEN Len(str) ELSE n)

\* sanitizeFilename without the substring.
sanitizeFilenameUncut(name) == ReplaceUnkept(name)

sanitizeFilename(name) == Substring0(ReplaceUnkept(name), SANITIZED_LENGTH)

\* The taskId prop and the values of crypto.randomUUID(), as characters.
TaskIdChars == << "t", "1" >>
RandomUuids == { << "0", "f", "-", "4" >>, << "9", "a", "-", "4" >> }

\* `${taskId}/${crypto.randomUUID()}-${sanitizedName}`
FilePathOf(taskId, uuid, name) == taskId \o << "/" >> \o uuid \o << "-" >> \o name

PathIdle ==
  /\ fileName = << >>
  /\ sanitizedName = << >>
  /\ filePath = << >>

\* handleFileUpload, from the sanitizing of the name to the filePath.
BuildPath ==
  /\ filePath = << >>
  /\ sanitizedName' = sanitizeFilename(fileName)
  /\ \E uuid \in RandomUuids :
       filePath' = FilePathOf(TaskIdChars, uuid, sanitizedName')
  /\ UNCHANGED << fileName, attachmentVars, appVars >>

\* ------------------------------------------------- ProjectProvider (App)
\* Texts (titles, descriptions, tags, queries) are sequences of characters;
\* the values inside the persisted objects are strings ("true", "false").
\* createdAt, updatedAt, currentProjectId and currentTaskId are left out:
\* they are neither persisted keys of their own nor read by searchTasks.
\* Number of ids generateId hands out.
MaxIds == 3
\* Number of tasks held at a time.
MaxTasks == 2

STORAGE_KEYS ==
  [ projects |-> "waks-projects", tasks |-> "waks-tasks",
    comments |-> "waks-comments", notifications |-> "waks-notifications",
    preferences |-> "waks-preferences" ]

\* The names of the persisted states.
Persisted == DOMAIN STORAGE_KEYS

defaultPreferences ==
  [ defaultView |-> "kanban", sidebarCollapsed |-> "false", theme |-> "light" ]

\* initialProjects, initialTasks, initialComments, initialNotifications
InitialList == << >>

Undefined == "undefined"
\* localStorage.getItem of a key that is not stored
NoItem == [ null |-> "null" ]

\* generateId(prefix)
generateId(prefix) == << prefix, idClock >>

\* The object without the properties whose value is undefined, as
\* JSON.stringify writes it.
DefinedPart(obj) ==
  [ k \in { k \in DOMAIN obj : obj[k] # Undefined } |-> obj[k] ]

\* JSON.stringify of an array of objects, and of an object: the text.
StringifyList(list) == [ json |-> [i \in DOMAIN list |-> DefinedPart(list[i])] ]
StringifyObject(obj) == [ json |-> DefinedPart(obj) ]

\* JSON.parse
JsonParse(text) == text.json

\* { ...obj, ...updates }
Spread(obj, updates) ==
  [ k \in DOMAIN obj \cup DOMAIN updates |->
      IF k \in DOMAIN updates THEN updates[k] ELSE obj[k] ]

\* prev.map(x => x.id === id ? { ...x, ...updates } : x)
MapUpdate(list, id, updates) ==
  [ i \in DOMAIN list |->
      IF list[i].id = id THEN Spread(list[i], updates) ELSE list[i] ]

\* The value a persisted state has in memory, and its JSON text.
StateOf(key) ==
  CASE key = "projects" -> projects
    [] key = "tasks" -> tasks
    [] key = "comments" -> comments
    [] key = "notifications" -> notifications
    [] key = "preferences" -> preferences

JsonOf(key) ==
  IF key = "preferences"
    THEN StringifyObject(preferences) ELSE StringifyList(StateOf(key))

\* What the load effect sets a state to: the parsed item, or the initial
\* value when there is no item.
Loaded(key, initial) ==
  IF localStorage[STORAGE_KEYS[key]] # NoItem
    THEN JsonParse(localStorage[STORAGE_KEYS[key]]) ELSE initial

\* The save effects whose dependencies are in set, run with the
\* isInitialized of the render: the items after them.
SaveEffectsNone(set) == localStorage

\* SaveEffects without the test of isInitialized.
SaveEffectsUnguarded(set) ==
  [ item \in DOMAIN localStorage |->
      IF \E key \in set : STORAGE_KEYS[key] = item
        THEN JsonOf(CHOOSE key \in set : STORAGE_KEYS[key] = item)
        ELSE localStorage[item] ]

SaveEffects(set) ==
  [ item \in DOMAIN localStorage |->
      IF isInitialized /\ \E key \in set : STORAGE_KEYS[key] = item
        THEN JsonOf(CHOOSE key \in set : STORAGE_KEYS[key] = item)
        ELSE localStorage[item] ]

\* ---- texts
TextChars == { "a", "A", "b", "B", " " }
Whitespace == { " " }

\* c.toLowerCase()
LowerChar(c) ==
  CASE c = "A" -> "a"
    [] c = "B" -> "b"
    [] OTHER -> c

toLowerCase(text) == [ i \in DOMAIN text |-> LowerChar(text[i]) ]

\* text.trim()
RECURSIVE TrimStart(_)
TrimStart(text) ==
  IF text # << >> /\ Head(text) \in Whitespace
    THEN TrimStart(Tail(text)) ELSE text

RECURSIVE TrimEnd(_)
TrimEnd(text) ==
  IF text # << >> /\ text[Len(text)] \in Whitespace
    THEN TrimEnd(SubSeq(text, 1, Len(text) - 1)) ELSE text

trim(text) == TrimEnd(TrimStart(text))

\* text.includes(part)
includes(text, part) ==
  \E off \in 0..(Len(text) - Len(part)) :
    SubSeq(text, off + 1, off + Len(part)) = part

\* The searchTasks that compares with the query as typed.
searchTasksAsTyped(list, query) ==
  IF trim(query) = << >> THEN << >>
  ELSE SelectSeq(list, LAMBDA t :
         \/ includes(toLowerCase(t.title), query)
         \/ includes(toLowerCase(t.description), query)
         \/ \E i \in DOMAIN t.tags : includes(toLowerCase(t.tags[i]), query))

searchTasks(list, query) ==
  IF trim(query) = << >> THEN << >>
  ELSE LET lowerQuery == toLowerCase(query) IN
       SelectSeq(list, LAMBDA t :
         \/ includes(toLowerCase(t.title), lowerQuery)
         \/ includes(toLowerCase(t.description), lowerQuery)
         \/ \E i \in DOMAIN t.tags : includes(toLowerCase(t.tags[i]), lowerQuery))

\* ---- the inputs of the mutations
TaskTexts ==
  { [ title |-> << "A", "b" >>, description |-> << >>, tags |-> << >> ],
    [ title |-> << "b" >>, description |-> << "A", " ", "b" >>,
      tags |-> << << "B", "a" >> >> ],
    [ title |-> << " " >>, description |-> << >>,
      tags |-> << << >>, << "a", "b" >> >> ] }

Queries ==
  { << >>, << " " >>, << " ", " " >>, << "a" >>, << "A" >>, << "B" >>,
    << "a", "b" >>, << "a", "B" >>, << "b", "a" >>, << "b", " " >>,
    << " ", "b" >>, << "b", "b" >> }

ProjectUpdates == { [ description |-> Undefined ] }
TaskUpdates == { [ status |-> "done" ], [ assigneeId |-> Undefined ] }
PreferenceUpdates == { [ theme |-> "dark" ], [ theme |-> "light" ] }

\* Items an earlier visit can have left in localStorage.
EarlierStorage ==
  [ item \in { STORAGE_KEYS[k] : k \in Persisted } |->
      CASE item = "waks-notifications" ->
             StringifyList(<< [ id |-> "n1", read |-> "false" ],
                              [ id |-> "n2", read |-> "false" ] >>)
        [] item = "waks-preferences" ->
             StringifyObject([ defaultPreferences EXCEPT !.theme = "dark" ])
        [] OTHER -> NoItem ]

EmptyStorage == [ item \in { STORAGE_KEYS[k] : k \in Persisted } |-> NoItem ]

\* The provider before its first commit.
Unmounted ==
  /\ projects = << >>
  /\ tasks = << >>
  /\ comments = << >>
  /\ notifications = << >>
  /\ preferences = defaultPreferences
  /\ isInitialized = FALSE
  /\ changed = Persisted
  /\ searchQuery = << >>
  /\ searchResult = << >>

AppIdle ==
  /\ Unmounted
  /\ localStorage = EmptyStorage
  /\ idClock = 1

InitApp ==
  /\ InitAttachments
  /\ PathIdle
  /\ Unmounted
  /\ localStorage \in { EmptyStorage, EarlierStorage }
  /\ idClock = 1

\* A commit: the effects whose dependencies changed run.  The first commit
\* runs the load effect, and the save effects with isInitialized = false;
\* its setIsInitialized(true) makes every save effect run at the next commit.
Commit ==
  /\ changed # {}
  /\ localStorage' = SaveEffects(changed)
  /\ IF ~isInitialized
       THEN /\ projects' = Loaded("projects", InitialList)
            /\ tasks' = Loaded("tasks", InitialList)
            /\ comments' = Loaded("comments", InitialList)
            /\ notifications' = Loaded("notifications", InitialList)
            /\ preferences' = Loaded("preferences", defaultPreferences)
            /\ isInitialized' = TRUE
            /\ changed' = Persisted
       ELSE /\ changed' = {}
            /\ UNCHANGED << projects, tasks, comments, notifications,
                            preferences, isInitialized >>
  /\ UNCHANGED << idClock, searchQuery, searchResult >>
  /\ UNCHANGED << attachmentVars, pathVars >>

addProject(name) ==
  /\ isInitialized
  /\ idClock <= MaxIds
  /\ projects' = Append(projects,
       [ id |-> generateId("proj"), name |-> name, description |-> "text" ])
  /\ idClock' = idClock + 1
  /\ changed' = changed \cup {"projects"}
  /\ UNCHANGED << tasks, comments, notifications, preferences, isInitialized,
                  localStorage, searchQuery, searchResult >>
  /\ UNCHANGED << attachmentVars, pathVars >>

updateProject(id, updates) ==
  /\ isInitialized
  /\ projects' = MapUpdate(projects, id, updates)
  /\ changed' = changed \cup {"projects"}
  /\ UNCHANGED << tasks, comments, notifications, preferences, isInitialized,
                  localStorage, idClock, searchQuery, searchResult >>
  /\ UNCHANGED << attachmentVars, pathVars >>

deleteProject(id) ==
  /\ isInitialized
  /\ projects' = SelectSeq(projects, LAMBDA p : p.id # id)
  /\ tasks' = SelectSeq(tasks, LAMBDA t : t.projectId # id)
  /\ changed' = changed \cup {"projects", "tasks"}
  /\ UNCHANGED << comments, notifications, preferences, isInitialized,
                  localStorage, idClock, searchQuery, searchResult >>
  /\ UNCHANGED << attachmentVars, pathVars >>

addTask(projectId, texts) ==
  /\ isInitialized
  /\ idClock <= MaxIds
  /\ Len(tasks) < MaxTasks
  /\ tasks' = Append(tasks,
       [ id |-> generateId("task"), projectId |-> projectId,
         title |-> texts.title, description |-> texts.description,
         tags |-> texts.tags, status |-> "todo", assigneeId |-> "m1" ])
  /\ idClock' = idClock + 1
  /\ changed' = changed \cup {"tasks"}
  /\ UNCHANGED << projects, comments, notifications, preferences,
                  isInitialized, localStorage, searchQuery, searchResult >>
  /\ UNCHANGED << attachmentVars, pathVars >>

updateTask(id, updates) ==
  /\ isInitialized
  /\ tasks' = MapUpdate(tasks, id, updates)
  /\ changed' = changed \cup {"tasks"}
  /\ UNCHANGED << projects, comments, notifications, preferences,
                  isInitialized, localStorage, idClock, searchQuery,
                  searchResult >>
  /\ UNCHANGED << attachmentVars, pathVars >>

deleteTask(id) ==
  /\ isInitialized
  /\ tasks' = SelectSeq(tasks, LAMBDA t : t.id # id)
  /\ comments' = SelectSeq(comments, LAMBDA c : c.taskId # id)
  /\ changed' = changed \cup {"tasks", "comments"}
  /\ UNCHANGED << projects, notifications, preferences, isInitialized,
                  localStorage, idClock, searchQuery, searchResult >>
  /\ UNCHANGED << attachmentVars, pathVars >>

addComment(taskId, content, authorId) ==
  /\ isInitialized
  /\ idClock <= MaxIds
  /\ comments' = Append(comments,
       [ id |-> generateId("com"), taskId |-> taskId, authorId |-> authorId,
         content |-> content ])
  /\ idClock' = idClock + 1
  /\ changed' = changed \cup {"comments"}
  /\ UNCHANGED << projects, tasks, notifications, preferences, isInitialized,
                  localStorage, searchQuery, searchResult >>
  /\ UNCHANGED << attachmentVars, pathVars >>

markNotificationRead(id) ==
  /\ isInitialized
  /\ notifications' = MapUpdate(notifications, id, [ read |-> "true" ])
  /\ changed' = changed \cup {"notifications"}
  /\ UNCHANGED << projects, tasks, comments, preferences, isInitialized,
                  localStorage, idClock, searchQuery, searchResult >>
  /\ UNCHANGED << attachmentVars, pathVars >>

markAllNotificationsRead ==
  /\ isInitialized
  /\ notifications' =
       [ i \in DOMAIN notifications |->
           Spread(notifications[i], [ read |-> "true" ]) ]
  /\ changed' = changed \cup {"notifications"}
  /\ UNCHANGED << projects, tasks, comments, preferences, isInitialized,
                  localStorage, idClock, searchQuery, searchResult >>
  /\ UNCHANGED << attachmentVars, pathVars >>

updatePreferences(updates) ==
  /\ isInitialized
  /\ preferences' = Spread(preferences, updates)
  /\ changed' = changed \cup {"preferences"}
  /\ UNCHANGED << projects, tasks, comments, notifications, isInitialized,
                  localStorage, idClock, searchQuery, searchResult >>
  /\ UNCHANGED << attachmentVars, pathVars >>

\* A call searchTasks(query) of a consumer of the context.
SearchTasks(query) ==
  /\ isInitialized
  /\ searchQuery' = query
  /\ searchResult' = searchTasks(tasks, query)
  /\ UNCHANGED << projects, tasks, comments, notifications, preferences,
                  isInitialized, localStorage, changed, idClock >>
  /\ UNCHANGED << attachmentVars, pathVars >>

\* The page is loaded again: the provider mounts anew over the same
\* localStorage.
Remount ==
  /\ isInitialized
  /\ projects' = << >>
  /\ tasks' = << >>
  /\ comments' = << >>
  /\ notifications' = << >>
  /\ preferences' = defaultPreferences
  /\ isInitialized' = FALSE
  /\ changed' = Persisted
  /\ searchQuery' = << >>
  /\ searchResult' = << >>
  /\ UNCHANGED << localStorage, idClock >>
  /\ UNCHANGED << attachmentVars, pathVars >>

vars == << attachmentVars, pathVars, appVars >>

Init ==
  /\ InitAttachments
  /\ PathIdle
  /\ AppIdle

\* ---------------------------------------------------------- specifications
\* The user starts an Upload, a Delete or a Restore.  An Upload draws two
\* UUIDs for each file, out of a budget of uuids.
Begin(s, uuids) ==
  \/ \E files \in Batches :
        /\ nextUuid + 2 * Len(files) - 1 <= uuids
        /\ UploadBegin(s, files)
  \/ \E a \in attachments[s] : DeleteBegin(s, a)
  \/ \E v \in versions[s] : RestoreBegin(s, v)

\* The user opens or closes the version history.
Browse(s) ==
  \/ \E a \in attachments[s] : OpenHistory(s, a)
  \/ CloseHistory(s)

\* An awaited call returns, with success ok, and its handler runs on.
Serve(s, ok) ==
  \/ FetchAttachments(s, ok)
  \/ LoadVersions(s, ok)
  \/ UploadHistory(s, ok)
  \/ UploadDemote(s, ok)
  \/ UploadStore(s, ok)
  \/ UploadInsert(s, ok)
  \/ DeleteRemove(s, ok)
  \/ DeleteCatalog(s, ok)
  \/ DeleteHistory(s, ok)
  \/ DeletePromote(s, ok)
  \/ RestoreDemote(s, ok)
  \/ RestorePromote(s, ok)

\* One session, operations one at a time, every Store and Catalog call
\* succeeding.
NextOk ==
  \E s \in {"s1"} :
    \/ Quiet(s) /\ Begin(s, MaxUuidOk)
    \/ Browse(s)
    \/ \E authed \in BOOLEAN : UploadGetUser(s, authed)
    \/ UploadNextFile(s)
    \/ DeleteDone(s)
    \/ RestoreDone(s)
    \/ Serve(s, TRUE)

SpecOk == Init /\ [][NextOk]_vars

\* One session, operations one at a time; a Store or Catalog call may return
\* an error and the page may be reloaded while an operation is in flight.
Next ==
  \E s \in {"s1"} :
    \/ Quiet(s) /\ Begin(s, MaxUuid)
    \/ Browse(s)
    \/ \E authed \in BOOLEAN : UploadGetUser(s, authed)
    \/ UploadNextFile(s)
    \/ DeleteDone(s)
    \/ RestoreDone(s)
    \/ \E ok \in BOOLEAN : Serve(s, ok)
    \/ Reload(s)

Spec == Init /\ [][Next]_vars

\* One session, every call succeeding; the user clicks whatever control the
\* page offers, also while a handler is waiting for a call to return.
NextTab ==
  \E s \in {"s1"} :
    \/ Begin(s, MaxUuid)
    \/ Browse(s)
    \/ \E authed \in BOOLEAN : UploadGetUser(s, authed)
    \/ UploadNextFile(s)
    \/ DeleteDone(s)
    \/ RestoreDone(s)
    \/ Serve(s, TRUE)

SpecTab == Init /\ [][NextTab]_vars

\* The cached list of a session is the list of latest rows of the Catalog.
Fresh(s) ==
  /\ ~fetchPending[s]
  /\ attachments[s] = SelectLatest(catalog, TaskOf(s))

\* Two sessions of one user on one task, every call succeeding.  Session s1
\* uploads a.pdf, one Upload at a time and only with its list fresh; session
\* s3 browses, deletes and restores, one operation at a time.  No two Uploads
\* run at the same time: of two operations that run side by side, one is a
\* Delete or a Restore.
NextTwo ==
  \/ \E s \in {"s1"} :
       \/ /\ Quiet(s)
          /\ Fresh(s)
          /\ nextUuid + 1 <= MaxUuid
          /\ UploadBegin(s, << [name |-> "a.pdf", type |-> "application/pdf",
                                size |-> MAX_FILE_SIZE] >>)
       \/ UploadGetUser(s, TRUE)
       \/ UploadNextFile(s)
       \/ Serve(s, TRUE)
  \/ \E s \in {"s3"} :
       \/ Quiet(s) /\ \E a \in attachments[s] : DeleteBegin(s, a)
       \/ Quiet(s) /\ \E v \in versions[s] : RestoreBegin(s, v)
       \/ Browse(s)
       \/ DeleteDone(s)
       \/ RestoreDone(s)
       \/ Serve(s, TRUE)

SpecTwo == Init /\ [][NextTwo]_vars

\* The steps of a running handleFileUpload: getUser returns, the loop turns,
\* an awaited call returns (with data or an error) or rejects.
UploadStep(s) ==
  \/ \E authed \in BOOLEAN : UploadGetUser(s, authed)
  \/ UploadNextFile(s)
  \/ \E ok \in BOOLEAN : UploadHistory(s, ok)
  \/ \E ok \in BOOLEAN : UploadDemote(s, ok)
  \/ \E ok \in BOOLEAN : UploadStore(s, ok)
  \/ \E ok \in BOOLEAN : UploadInsert(s, ok)
  \/ UploadThrow(s)

\* One session that uploads batches; a call of the Store or the Catalog may
\* return an error or reject.
NextBatch ==
  \E s \in {"s1"} :
    \/ \E files \in Batches :
          /\ nextUuid + 2 * Len(files) - 1 <= MaxUuidBatch
          /\ UploadBegin(s, files)
    \/ \E ok \in BOOLEAN : FetchAttachments(s, ok)
    \/ UploadStep(s)

SpecBatch == Init /\ [][NextBatch]_vars

\* The same, where every awaited call returns or rejects in the end and the
\* handler runs on when it has.
SpecBatchFair == SpecBatch /\ WF_vars(UploadStep("s1"))

\* Two users on one task, every call succeeding.  Each uploads a.pdf, and an
\* Upload begins only when no operation is in flight in either session and
\* the list of the uploader is fresh.
NextUsers ==
  \E s \in {"s1", "s2"} :
    \/ /\ \A other \in {"s1", "s2"} : Quiet(other)
       /\ Fresh(s)
       /\ nextUuid + 1 <= MaxUuidBatch
       /\ UploadBegin(s, << [name |-> "a.pdf", type |-> "application/pdf",
                             size |-> MAX_FILE_SIZE] >>)
    \/ UploadGetUser(s, TRUE)
    \/ UploadNextFile(s)
    \/ FetchAttachments(s, TRUE)
    \/ UploadHistory(s, TRUE)
    \/ UploadDemote(s, TRUE)
    \/ UploadStore(s, TRUE)
    \/ UploadInsert(s, TRUE)

SpecUsers == Init /\ [][NextUsers]_vars

\* One session on a board of two tasks, operations one at a time, every call
\* succeeding; the user uploads a.pdf, one file at a time, and moves from
\* task to task.
NextTasks ==
  \E s \in {"s1"} :
    \/ /\ Quiet(s)
       /\ nextUuid + 1 <= MaxUuidOk
       /\ UploadBegin(s, << [name |-> "a.pdf", type |-> "application/pdf",
                             size |-> MAX_FILE_SIZE] >>)
    \/ Quiet(s) /\ \E a \in attachments[s] : DeleteBegin(s, a)
    \/ Quiet(s) /\ \E v \in versions[s] : RestoreBegin(s, v)
    \/ Browse(s)
    \/ UploadGetUser(s, TRUE)
    \/ UploadNextFile(s)
    \/ DeleteDone(s)
    \/ RestoreDone(s)
    \/ Serve(s, TRUE)
    \/ \E task \in TaskIds : SwitchTask(s, task)

SpecTasks == Init /\ [][NextTasks]_vars

\* handleFileUpload is handed a file of some name.
InitPath ==
  /\ InitAttachments
  /\ AppIdle
  /\ fileName \in Names
  /\ sanitizedName = << >>
  /\ filePath = << >>

\* The path of one file is built.
NextPath == BuildPath

SpecPath == InitPath /\ [][NextPath]_vars

\* The provider: commits, mutations and reloads of the page.  An event
\* handler runs when the effects of the last commit have run.
NextApp ==
  \/ Commit
  \/ changed = {} /\ addProject("name")
  \/ changed = {} /\ \E i \in DOMAIN projects, u \in ProjectUpdates :
                        updateProject(projects[i].id, u)
  \/ changed = {} /\ \E i \in DOMAIN projects : deleteProject(projects[i].id)
  \/ changed = {} /\ \E i \in DOMAIN projects :
                        addTask(projects[i].id, CHOOSE texts \in TaskTexts : TRUE)
  \/ changed = {} /\ \E i \in DOMAIN tasks, u \in TaskUpdates :
                        updateTask(tasks[i].id, u)
  \/ changed = {} /\ \E i \in DOMAIN tasks : deleteTask(tasks[i].id)
  \/ changed = {} /\ \E i \in DOMAIN tasks :
                        addComment(tasks[i].id, "content", "m1")
  \/ changed = {} /\ \E i \in DOMAIN notifications :
                        markNotificationRead(notifications[i].id)
  \/ changed = {} /\ markAllNotificationsRead
  \/ changed = {} /\ \E u \in PreferenceUpdates : updatePreferences(u)
  \/ Remount

SpecApp == InitApp /\ [][NextApp]_vars

\* The tasks a provider can hold: up to MaxTasks tasks of any texts.
TaskLists ==
  UNION { [ 1..n -> { [ id |-> << "task", k >>, projectId |-> << "proj", 1 >>,
                        title |-> texts.title,
                        description |-> texts.description,
                        tags |-> texts.tags, status |-> "todo",
                        assigneeId |-> "m1" ] :
                      k \in 1..MaxTasks, texts \in TaskTexts } ] :
          n \in 0..MaxTasks }

\* A loaded provider with some tasks, not searched yet.
InitSearch ==
  /\ InitAttachments
  /\ PathIdle
  /\ projects = << >>
  /\ tasks \in TaskLists
  /\ comments = << >>
  /\ notifications = << >>
  /\ preferences = defaultPreferences
  /\ isInitialized = TRUE
  /\ changed = {}
  /\ localStorage = EmptyStorage
  /\ idClock = 1
  /\ searchQuery = << >>
  /\ searchResult = << >>

NextSearch == \E query \in Queries : SearchTasks(query)

SpecSearch == InitSearch /\ [][NextSearch]_vars

\* ------------------------------------------------------------------ claims
LatestOf(cat, task, name) ==
  { r \in PairRecords(cat, task, name) : r.is_latest }

Tasks == TaskIds

\* C1: whenever no Upload, Restore or Delete of a session is in flight (every
\* operation begun has completed, with every call succeeding), every pair that
\* has rows has exactly one row with is_latest = true.
C1_ExactlyOneLatestAfterOperation ==
  (\A s \in {"s1"} : Quiet(s)) =>
    \A task \in Tasks, name \in FileNames :
      PairRecords(catalog, task, name) # {} =>
        Cardinality(LatestOf(catalog, task, name)) = 1

\* C2: in every reachable state no pair has two or more rows with
\* is_latest = true.
C2_AtMostOneLatest ==
  \A task \in Tasks, name \in FileNames :
    \A r, q \in LatestOf(catalog, task, name) : r = q

\* A pair is sound when it has no rows or exactly one latest row.
PairSound(cat, task, name) ==
  PairRecords(cat, task, name) = {} \/
    Cardinality(LatestOf(cat, task, name)) = 1

\* C3: when an Upload of a file, a Restore or a Delete ends and one of its
\* Store or Catalog calls has returned an error, the pair it worked on, if it
\* still has rows, has exactly one latest row.
C3_FailedOperationKeepsOneLatest ==
  [][\A s \in Sessions :
       /\ ( /\ up[s].pc \in {"store", "insert"}
            /\ up'[s].pc = "file"
            /\ up'[s].err )
          => PairSound(catalog', TaskOf(s), up[s].files[up[s].idx].name)
       /\ ( /\ res[s].pc = "promote"
            /\ res'[s].pc = "done"
            /\ res'[s].err )
          => PairSound(catalog', TaskOf(s), res[s].att.file_name)
       /\ ( /\ del[s].pc \in {"delete", "history", "promote"}
            /\ del'[s].pc = "done"
            /\ del'[s].err )
          => PairSound(catalog', TaskOf(s), del[s].att.file_name)
    ]_vars

\* The row an UploadInsert step of session s adds to the Catalog.
Inserted(s) == catalog' \ catalog

InsertStep(s) ==
  /\ up[s].pc = "insert"
  /\ up'[s].pc = "file"
  /\ Inserted(s) # {}

\* C4: an Upload into a pair whose rows carry the versions 1..k (k >= 0, the
\* earlier uploads of the name) inserts the row of version k + 1, and after it
\* that row is the only latest row of the pair.
C4_SequentialVersions ==
  [][\A s \in Sessions :
       InsertStep(s) =>
         LET name == up[s].files[up[s].idx].name
             old  == PairRecords(catalog, TaskOf(s), name)
             k    == Cardinality(old)
         IN ({ r.version : r \in old } = 1..k) =>
              \A new \in Inserted(s) :
                /\ new.version = k + 1
                /\ LatestOf(catalog', TaskOf(s), name) = {new}
    ]_vars

\* C5: the row an Upload inserts has version 1 if the Catalog holds no row of
\* the pair and max(existing versions) + 1 otherwise.
C5_VersionFromCatalog ==
  [][\A s \in Sessions :
       InsertStep(s) =>
         LET name == up[s].files[up[s].idx].name
             old  == PairRecords(catalog, TaskOf(s), name)
         IN \A new \in Inserted(s) :
              IF old = {}
                THEN new.version = 1
                ELSE \E top \in old :
                       /\ \A r \in old : r.version <= top.version
                       /\ new.version = top.version + 1
    ]_vars

\* C6: when the Store upload of a file fails, the rows of the pair that the
\* Upload read before (getVersionHistory) are still in the Catalog as they
\* were, and no row has been added.
C6_StoreFailureBeforeCatalogWrite ==
  [][\A s \in Sessions :
       ( /\ up[s].pc = "store"
         /\ up'[s].pc = "file" )
       => /\ \A r \in up[s].versions : r \in catalog'
          /\ \A r \in catalog' :
               r.file_path # nextUuid
    ]_vars

Rejected(file) ==
  file.type \notin ALLOWED_FILE_TYPES \/ file.size > MAX_FILE_SIZE

\* C7: the turn of the upload loop that meets a file of a type outside the
\* allow-list or of more than 10,485,760 bytes goes on to the next file with
\* the Catalog and the Store unchanged and no call issued for the file; an
\* upload without an authenticated user ends with both unchanged.
C7_RejectedUploadTouchesNothing ==
  [][\A s \in Sessions :
       /\ ( /\ up[s].pc = "file"
            /\ up[s].idx <= Len(up[s].files)
            /\ Rejected(up[s].files[up[s].idx])
            /\ up'[s] # up[s] )
          => /\ catalog' = catalog
             /\ store' = store
             /\ up'[s].pc \in {"file", "idle"}
       /\ ( /\ up[s].pc = "getUser"
            /\ up'[s].pc # "getUser" )
          => /\ catalog' = catalog
             /\ store' = store
             /\ up'[s].pc = "idle" \/ up'[s].user # NoUser
    ]_vars

\* C7 witness: the first file of a batch has been turned down for its size and
\* the Catalog and the Store are still empty.
C7_Witness ==
  \E s \in Sessions :
    /\ toast[s] = "File too large"
    /\ up[s].pc = "file"
    /\ up[s].idx = 2
    /\ catalog = {}
    /\ store = {}

\* The rows of a catalog without their is_latest flags.
Unflagged(cat) == { [r EXCEPT !.is_latest = FALSE] : r \in cat }

\* C8: the two updates of a Restore change no row but in its is_latest flag;
\* after the second, the restored row k (if it is in the Catalog) is the only
\* latest row of its pair and the row the dialog showed as latest is not.
C8_RestorePromotesOnlyTarget ==
  [][\A s \in Sessions :
       /\ ( /\ res[s].pc = "demote"
            /\ res'[s].pc = "promote" )
          => Unflagged(catalog') = Unflagged(catalog)
       /\ ( /\ res[s].pc = "promote"
            /\ res'[s].pc = "done" )
          => LET k == res[s].att IN
             /\ Unflagged(catalog') = Unflagged(catalog)
             /\ (\E r \in catalog : r.id = k.id) =>
                  \A r \in catalog' :
                    (r.task_id = TaskOf(s) /\ r.file_name = k.file_name) =>
                      (r.is_latest <=> r.id = k.id)
             /\ \A v \in versions[s] :
                  (v.file_name = k.file_name /\ v.is_latest /\ v.id # k.id)
                    => \A r \in catalog' : r.id = v.id => ~r.is_latest
    ]_vars

\* C8 witness: a Restore of a row shown as not latest has made both updates:
\* the row is latest and the row shown as latest is demoted.
C8_Witness ==
  \E s \in Sessions :
    /\ res[s].pc = "done"
    /\ \E r \in catalog : r.id = res[s].att.id /\ r.is_latest
    /\ \E v \in versions[s] :
         /\ v.file_name = res[s].att.file_name
         /\ v.is_latest
         /\ \E q \in catalog : q.id = v.id /\ ~q.is_latest

\* C9: a Restore of a row that is latest in the Catalog writes nothing: its
\* first update leaves the Catalog as it is.
C9_RestoreOfLatestWritesNothing ==
  [][\A s \in Sessions :
       ( /\ res[s].pc = "demote"
         /\ res'[s].pc = "promote"
         /\ \E r \in catalog : r.id = res[s].att.id /\ r.is_latest )
       => catalog' = catalog
    ]_vars

FileComponent(path) == SubSeq(path, Len(TaskIdChars) + 2, Len(path))

\* C12: the part after '{taskId}/' of the path Upload builds holds no '/' and
\* no two '.' in a row.
C12_PathComponentNoTraversal ==
  filePath # << >> =>
    LET comp == FileComponent(filePath) IN
    /\ \A i \in 1..Len(comp) : comp[i] # "/"
    /\ \A i \in 1..(Len(comp) - 1) : ~(comp[i] = "." /\ comp[i + 1] = ".")

\* C13 as stated: the sanitized name is the file name with the characters
\* outside [A-Za-z0-9._-] removed, cut to 255 characters, and has 1 to 255
\* characters.
C13_SanitizeStrips ==
  filePath # << >> =>
    /\ Len(sanitizedName) \in 1..255
    /\ \A i \in 1..Len(sanitizedName) : sanitizedName[i] \in KeptChars
    /\ sanitizedName =
         Substring0(SelectSeq(fileName, LAMBDA c : c \in KeptChars), 255)

\* C13 amended: the sanitized name has the first 255 characters of the file
\* name (all of them if there are fewer), each one kept if it is in
\* [A-Za-z0-9._-] and replaced by '_' otherwise; so it is made of characters
\* of that class only, has at most 255 characters and is empty only for the
\* empty file name.
C13_SanitizeReplaces ==
  filePath # << >> =>
    /\ Len(sanitizedName) = (IF Len(fileName) < 255 THEN Len(fileName) ELSE 255)
    /\ \A i \in 1..Len(sanitizedName) :
         /\ sanitizedName[i] \in KeptChars
         /\ fileName[i] \in KeptChars => sanitizedName[i] = fileName[i]
         /\ fileName[i] \notin KeptChars => sanitizedName[i] = "_"
    /\ Len(sanitizedName) = 0 <=> fileName = << >>

\* C13 witness: a name of more than 255 characters outside the class has been
\* sanitized to 255 underscores.
C13_Witness ==
  /\ filePath # << >>
  /\ Len(fileName) > 255
  /\ fileName[1] = "/"
  /\ Len(sanitizedName) = 255
  /\ sanitizedName[255] = "_"

\* The operations of a session that wait for a call to return.
Awaiting(s) ==
  { op \in {"upload", "delete", "restore"} :
      \/ op = "upload" /\
           up[s].pc \in {"getUser", "history", "demote", "store", "insert"}
      \/ op = "delete" /\
           del[s].pc \in {"remove", "delete", "history", "promote"}
      \/ op = "restore" /\ res[s].pc \in {"demote", "promote"} }

\* C14: in one tab no Upload, Restore or Delete begins while another one
\* waits for a call to return.
C14_OneOperationAtATime ==
  [][\A s \in Sessions :
       ( \/ up[s].pc = "idle" /\ up'[s].pc # "idle"
         \/ del[s].pc = "idle" /\ del'[s].pc # "idle"
         \/ res[s].pc = "idle" /\ res'[s].pc # "idle" )
       => Awaiting(s) = {}
    ]_vars

\* C15: with two sessions of which never two upload at the same time, every
\* call succeeding, no pair ever has more than one latest row.
C15_OnlyTwoUploadsBreakSingleLatest ==
  \A task \in Tasks, name \in FileNames :
    Cardinality(LatestOf(catalog, task, name)) <= 1

\* C16: when a pair has rows and none of them is latest, a session whose list
\* is fresh and whose dialog is closed is offered the version history of the
\* pair (the History button of a row of that name), where Restore is.
C16_RestoreAvailableWhenNoLatest ==
  \A s \in Sessions :
    ( /\ Quiet(s)
      /\ Fresh(s)
      /\ showVersionHistory[s] = NoName
      /\ loadingVersions[s] = NoName )
    => \A name \in FileNames :
         ( /\ PairRecords(catalog, TaskOf(s), name) # {}
           /\ LatestOf(catalog, TaskOf(s), name) = {} )
         => \E a \in attachments[s] : a.file_name = name

\* A call of the running operation of a kind has returned an error in this
\* step.
FailedCall(before, after) ==
  /\ errors' = errors + 1
  /\ before # after

\* C17: when a Store or Catalog call of an Upload, a Restore or a Delete
\* returns an error, the operation issues no further call: a Delete or a
\* Restore ends there without its success notice, and an Upload goes on to the
\* next file of the batch with a failure notice.
C17_AbortAtPointOfFailure ==
  [][\A s \in Sessions :
       /\ FailedCall(del[s], del'[s]) =>
            /\ del'[s].pc \in {"idle", "done"}
            /\ del'[s].err
       /\ FailedCall(res[s], res'[s]) =>
            /\ res'[s].pc \in {"idle", "done"}
            /\ res'[s].err
       /\ FailedCall(up[s], up'[s]) =>
            /\ up'[s].pc \in {"idle", "file"}
            /\ toast'[s] \in {"Upload failed", "Failed to save attachment"}
       /\ (del[s].pc = "done" /\ del'[s].pc = "idle" /\ del[s].err) =>
            toast'[s] # "File deleted"
       /\ (res[s].pc = "done" /\ res'[s].pc = "idle" /\ res[s].err) =>
            toast'[s] # "Version restored"
    ]_vars

C18_StorageMirrorsMemory ==
  (isInitialized /\ changed = {}) =>
    \A key \in Persisted :
      /\ localStorage[STORAGE_KEYS[key]] # NoItem
      /\ localStorage[STORAGE_KEYS[key]] =
           IF key = "preferences"
             THEN StringifyObject(preferences)
             ELSE StringifyList(StateOf(key))

\* C18 witness: after mutations and their commit, the stored tasks are the
\* text of the tasks in memory, one of which has lost its assignee; the
\* notifications of an earlier visit are stored as read.
C18_Witness ==
  /\ isInitialized
  /\ changed = {}
  /\ Len(tasks) = 1
  /\ tasks[1].assigneeId = Undefined
  /\ Len(localStorage["waks-tasks"].json) = 1
  /\ localStorage["waks-tasks"].json[1].id = tasks[1].id
  /\ "assigneeId" \notin DOMAIN localStorage["waks-tasks"].json[1]
  /\ Len(notifications) = 2
  /\ localStorage["waks-notifications"].json[1].read = "true"

\* Two characters are the same letter, whatever their case.
SameLetter(c, d) ==
  \/ c = d
  \/ {c, d} = {"a", "A"}
  \/ {c, d} = {"b", "B"}

ContainsIgnoringCase(text, part) ==
  \E off \in 0..(Len(text) - Len(part)) :
    \A k \in 1..Len(part) : SameLetter(text[off + k], part[k])

Blank(text) == \A i \in DOMAIN text : text[i] = " "

Matches(t, query) ==
  \/ ContainsIgnoringCase(t.title, query)
  \/ ContainsIgnoringCase(t.description, query)
  \/ \E i \in DOMAIN t.tags : ContainsIgnoringCase(t.tags[i], query)

\* C19: the result of searchTasks(query) is the empty list when the query is
\* empty or made of spaces, and otherwise the tasks, in the order of the
\* cache, of which the title, the description or a tag contains the query,
\* whatever the case of the letters.
C19_SearchTasksResult ==
  searchResult =
    IF Blank(searchQuery) THEN << >>
    ELSE SelectSeq(tasks, LAMBDA t : Matches(t, searchQuery))

\* C19 witness: the query "aB" has found the second of two tasks, by its
\* title "Ab", and not the first.
C19_Witness ==
  /\ searchQuery = << "a", "B" >>
  /\ Len(tasks) = 2
  /\ Len(searchResult) = 1
  /\ searchResult[1] = tasks[2]
  /\ tasks[2].title = << "A", "b" >>

\* The rows of a catalog whose file_path has no blob in the Store.
Dangling(cat, blobs) == { r \in cat : r.file_path \notin blobs }

\* C21: whenever no Upload, Restore or Delete is in flight (also after a
\* Delete of which a removal has returned an error), every row of the Catalog
\* has its blob in the Store.
C21_NoDanglingRecord ==
  (\A s \in {"s1"} : Quiet(s)) => Dangling(catalog, store) = {}

\* C22: when the insert of an Upload returns an error, the blob the Upload
\* has stored stays in the Store and no row of the Catalog has its path; the
\* Catalog is left as it was, and the Upload goes on to the next file of the
\* batch without a second insert.
C22_InsertFailureLeavesOrphan ==
  [][\A s \in Sessions :
       ( /\ up[s].pc = "insert"
         /\ up'[s] # up[s]
         /\ errors' = errors + 1 )
       => /\ up[s].path \in store
          /\ store' = store
          /\ catalog' = catalog
          /\ \A r \in catalog' : r.file_path # up[s].path
          /\ up'[s].pc = "file"
          /\ up'[s].idx = up[s].idx + 1
    ]_vars

\* C22 witness: the insert of an Upload has failed; the blob is in the Store
\* and no row has its path.
C22_Witness ==
  \E s \in Sessions :
    /\ toast[s] = "Failed to save attachment"
    /\ up[s].pc = "file"
    /\ up[s].err
    /\ up[s].path \in store
    /\ \A r \in catalog : r.file_path # up[s].path

\* The file of the running turn of the upload loop of a session.
TurnFile(s) == up[s].files[up[s].idx]

\* C23: in a batch, every file gets its turn whatever happened to the files
\* before it: a step of the handler leaves the batch as it is, a turn ends
\* (also on a rejection by type or size, an error or a rejected call) by
\* moving to the next file, and the handler ends only after the last file.
\* The turn of a valid file issues its calls one after the other as long as
\* they succeed, and when its insert has succeeded the Catalog holds a row of
\* the file's name, version and path, with its blob in the Store.
C23_BatchFailuresPerFile ==
  [][\A s \in Sessions :
       ( /\ up[s].pc \notin {"idle", "getUser"}
         /\ up'[s] # up[s] )
       => /\ up'[s].pc = "idle" =>
               (up[s].pc = "file" /\ up[s].idx = Len(up[s].files) + 1)
          /\ up'[s].pc # "idle" =>
               /\ up'[s].files = up[s].files
               /\ up'[s].idx \in {up[s].idx, up[s].idx + 1}
               /\ up'[s].idx = up[s].idx + 1 => up'[s].pc = "file"
               /\ up[s].idx <= Len(up[s].files)
          /\ ( /\ up[s].pc = "file"
               /\ up[s].idx <= Len(up[s].files)
               /\ ~Rejected(TurnFile(s)) )
             => /\ up'[s].pc \in {"history", "store"}
                /\ up'[s].idx = up[s].idx
          /\ ( /\ up[s].pc \in {"history", "demote", "store", "insert"}
               /\ errors' = errors )
             => /\ up[s].pc = "history" => up'[s].pc = "demote"
                /\ up[s].pc = "demote" => up'[s].pc = "store"
                /\ up[s].pc = "store" =>
                     (up'[s].pc = "insert" /\ up'[s].path \in store')
                /\ up[s].pc = "insert" =>
                     \E r \in catalog' \ catalog :
                       /\ r.file_name = TurnFile(s).name
                       /\ r.task_id = TaskOf(s)
                       /\ r.version = up[s].newVersion
                       /\ r.file_path = up[s].path
                       /\ r.file_path \in store'
    ]_vars

\* C23 witness: in a batch of two valid files the Store upload of the first
\* has failed and the second has its row in the Catalog.
C23_Witness ==
  \E s \in Sessions :
    /\ up[s].pc = "file"
    /\ Len(up[s].files) = 2
    /\ up[s].idx = 3
    /\ errors = 1
    /\ \A i \in 1..2 : ~Rejected(up[s].files[i])
    /\ \A r \in catalog : r.file_name # up[s].files[1].name
    /\ \E r \in catalog :
         /\ r.file_name = up[s].files[2].name
         /\ r.file_path \in store

\* C24: when the row a Delete removes is not latest in the Catalog at the
\* time of its removal, the Delete changes no is_latest flag of the rows of
\* the pair that remain: either it ends without a promotion, or the row it
\* goes on to promote (a remaining row of the highest version) is latest
\* already.  No other operation writes while the Delete runs.
C24_DeleteOfNonLatestPromotesNothing ==
  [][\A s \in Sessions :
       ( /\ del[s].pc = "delete"
         /\ del'[s].pc # "delete"
         /\ \E r \in catalog : r.id = del[s].att.id /\ ~r.is_latest )
       => LET rows == PairRecords(catalog', TaskOf(s), del[s].att.file_name)
          IN \/ del'[s].pc = "done"
             \/ \A r \in rows :
                  (\A q \in rows : q.version <= r.version) => r.is_latest
    ]_vars

\* C25: no two rows of a pair have the same version.
C25_UniqueVersionsPerPair ==
  \A r, q \in catalog :
    ( /\ r.task_id = q.task_id
      /\ r.file_name = q.file_name
      /\ r.version = q.version )
    => r = q

\* C26: an Upload of a new version by one user into a pair of which every
\* row was uploaded by another user leaves the row it inserts as the only
\* latest row of the pair.
C26_UploadOverOtherUsersRecords ==
  [][\A s \in Sessions :
       LET name == up[s].files[up[s].idx].name
           old  == PairRecords(catalog, TaskOf(s), name)
       IN ( /\ InsertStep(s)
            /\ old # {}
            /\ \A r \in old : r.uploaded_by # up[s].user )
          => LatestOf(catalog', TaskOf(s), name) = Inserted(s)
    ]_vars

\* The rows of the pair the running operation of a session works on: the
\* pair of the file an Upload is at, of the row a Delete was handed, of the
\* row a Restore was handed.
OwnPair(s, r) ==
  \/ /\ up[s].pc \in {"history", "demote", "store", "insert"}
     /\ r.task_id = TaskOf(s)
     /\ r.file_name = TurnFile(s).name
  \/ /\ del[s].pc # "idle"
     /\ r.task_id = del[s].att.task_id
     /\ r.file_name = del[s].att.file_name
  \/ /\ res[s].pc # "idle"
     /\ r.task_id = res[s].att.task_id
     /\ r.file_name = res[s].att.file_name

\* C27: a step of an Upload, a Restore or a Delete adds, removes and changes
\* rows of its own pair only: every row of another pair (the same file name
\* under another task, another file name under the same task) stays as it is.
C27_OtherPairsUnchanged ==
  [][\A r \in (catalog \ catalog') \cup (catalog' \ catalog) :
       \E s \in Sessions : OwnPair(s, r)
    ]_vars

\* C28: every Upload that has begun ends, with isUploading = false, whatever
\* its files are and whichever of its calls return an error or reject.
C28_UploadEndsNotUploading ==
  \A s \in Sessions :
    (up[s].pc # "idle") ~> (up[s].pc = "idle" /\ ~isUploading[s])

\* C28 witness: a batch of two files has ended after a failure, 'Upload
\* failed' is the last notice, and isUploading is false.
C28_Witness ==
  \E s \in Sessions :
    /\ up[s].pc = "idle"
    /\ ~isUploading[s]
    /\ errors = 1
    /\ toast[s] = "Upload failed"
    /\ fetchPending[s]
    /\ nextUuid >= 3

\* C29: as long as the provider has not loaded, no step writes to
\* localStorage; the load sets every state that has a stored item to the
\* parsed item; and the first save after the load leaves every item that was
\* stored as it was.
C29_NoWriteBeforeLoad ==
  [][/\ ~isInitialized => localStorage' = localStorage
     /\ (~isInitialized /\ isInitialized') =>
          \A key \in Persisted :
            localStorage[STORAGE_KEYS[key]] # NoItem =>
              /\ key = "projects" =>
                   projects' = localStorage[STORAGE_KEYS[key]].json
              /\ key = "tasks" =>
                   tasks' = localStorage[STORAGE_KEYS[key]].json
              /\ key = "comments" =>
                   comments' = localStorage[STORAGE_KEYS[key]].json
              /\ key = "notifications" =>
                   notifications' = localStorage[STORAGE_KEYS[key]].json
              /\ key = "preferences" =>
                   preferences' = localStorage[STORAGE_KEYS[key]].json
     /\ (isInitialized /\ changed = Persisted) =>
          \A key \in Persisted :
            localStorage[STORAGE_KEYS[key]] # NoItem =>
              localStorage'[STORAGE_KEYS[key]] = localStorage[STORAGE_KEYS[key]]
    ]_vars

\* C29 witness: the provider has mounted over the notifications and the
\* preferences of an earlier visit, has loaded them and has saved; the two
\* items are as they were, and a project added since is stored as well.
C29_Witness ==
  /\ isInitialized
  /\ changed = {}
  /\ idClock = 2
  /\ Len(projects) = 1
  /\ Len(notifications) = 2
  /\ notifications[1].read = "false"
  /\ preferences.theme = "dark"
  /\ localStorage["waks-projects"].json = projects
  /\ localStorage["waks-notifications"] = EarlierStorage["waks-notifications"]
  /\ localStorage["waks-preferences"] = EarlierStorage["waks-preferences"]
  /\ searchQuery = << >>

\* C30: the projectId of every task is the id of a project, and the taskId of
\* every comment is the id of a task.
C30_ReferentialIntegrity ==
  /\ \A i \in DOMAIN tasks :
       \E j \in DOMAIN projects : projects[j].id = tasks[i].projectId
  /\ \A i \in DOMAIN comments :
       \E j \in DOMAIN tasks : tasks[j].id = comments[i].taskId

====
